---- MODULE Spec2Model ----
(***************************************************************************)
(* Model of the blocking executor core of test_executors (src/src/lib.rs): *)
(* spin_on, sleep_on and the CONDVAR_WAKER_VTABLE waker that sleep_on      *)
(* hands to the future.  One executor thread drives one future; the future *)
(* (while it is being polled) and a few other threads hold clones of the   *)
(* waker and call clone / wake / wake_by_ref / drop on them at any time.   *)
(***************************************************************************)
EXTENDS Integers, FiniteSets, Sequences, TLC

\* ---- bounds of the model ----
\* largest number of Pending results a finite future gives before Ready
MaxPending == 2
\* threads other than the executor thread that may hold waker clones
NumWakers == 1
\* heap cells available for SimpleWakeShared allocations
NumAddr == 2
\* cap on the Arc strong count (bounds the number of outstanding clones)
MaxStrong == 3
\* cap on the counted wake calls between two returns of the wait
MaxWakes == 2
\* cap on the polls of a future that never becomes ready
MaxPolls == MaxPending + 2

\* values a future may produce
Values == {3, 42}

Null == 0
Addr == 1..NumAddr
\* holder id of the future being polled; the other holders are threads
Fut == 0
Wakers == 1..NumWakers
Holders == {Fut} \cup Wakers

VARIABLES
    executor,        \* "spin_on" or "sleep_on": the function the caller invoked
    pc,              \* position of the executor thread inside that function
    future,          \* the future: [kind, count, pendings, val]
    result,          \* what the executor returned (Null until it returns)
    polls,           \* number of polls of the future started so far
    heap,            \* Arc<SimpleWakeShared> cells: [live, strong, semaphore, allocs, frees]
    shared,          \* address allocated by this sleep_on call (Null before)
    local,           \* sleep_on's `local` Arc (Null when not held)
    waker,           \* sleep_on's `waker` handle (Null when not held)
    held,            \* held[h][a]: waker handles to cell a owned by holder h
    waking,          \* waking[h]: cell whose wake() h has signalled but not yet released
    wokenSincePoll,  \* wake or wake_by_ref was called since the latest poll started
    reentrant,       \* the future woke its own waker inside the current poll
    racing,          \* another thread woke the waker while the current poll was running
    prev,            \* [reentrant, racing] as they were when the latest poll started
    wakesSinceWait,  \* wake / wake_by_ref calls since the latest return of the wait
    resumedBy,       \* value of wakesSinceWait when the wait last returned
    wakes,           \* [counting, n]: when counting, n is the number of wake / wake_by_ref calls so far
    lastOp,          \* the latest operation: [op, a]
    polling,         \* number of polls of the future that are in progress
    data,            \* the shared vector the future pushes its value to when it completes
    api,             \* the entry point the caller invoked
    thread,          \* the thread the executor function runs on ("none": none yet)
    caller,          \* position of the calling thread: "call", "spawned", "returned", "panicked"
    current,         \* current[t]: id of the logwise context current on thread t
    new_context,     \* spawn_on's new_context: [id, parent, label] (NoContext before)
    thread_name,     \* spawn_on's thread_name argument
    pushed_id,       \* the spawned thread's pushed_id (Null before)
    returned,        \* the results poll_once has returned so far, in order
    now,             \* the clock, Instant::now()
    poll_after,      \* the task's poll_after deadline
    tnow,            \* the runtime's local `now` (meaningful once it is read)
    wakeAt,          \* the time std::thread::sleep(dur) lets the thread go on (meaningful while it sleeps)
    method,          \* the runtime method called: "spawn", "spawn_async", "spawn_objsafe" ("none": no runtime)
    dur              \* the runtime's local `dur` (meaningful once it is computed)

vars == <<executor, pc, future, result, polls, heap, shared, local, waker,
          held, waking, wokenSincePoll, reentrant, racing, prev,
          wakesSinceWait, resumedBy, wakes, lastOp, polling, data, api, thread,
          caller, current, new_context, thread_name, pushed_id, returned,
          now, poll_after, tnow, wakeAt, method, dur>>

execVars == <<executor, pc, future, result, polls, shared, local, waker>>
waitVars == <<wakesSinceWait, resumedBy, wakes>>
ghostVars == <<wokenSincePoll, reentrant, racing, prev, waitVars>>
pollVars == <<polling, data>>
spawnVars == <<thread, caller, current, new_context, thread_name, pushed_id>>
timeVars == <<now, poll_after, tnow, wakeAt, method, dur>>
envVars == <<api, spawnVars, returned, timeVars>>

Op(o, a) == [op |-> o, a |-> a]

\* ---- the future ----
\* PendForever::poll: always Pending, never touches the context
PendForever == [kind |-> "PendForever", count |-> 0, pendings |-> 0, val |-> Null]

\* a future that answers Pending `k` times and then Ready(v)
Counter(k, v) == [kind |-> "Counter", count |-> 0, pendings |-> k, val |-> v]

Futures == {PendForever} \cup {Counter(k, v) : k \in 0..MaxPending, v \in Values}

\* outcome of the poll in progress: TRUE when it returns Poll::Ready
PollReady(f) == f.kind = "Counter" /\ f.count > f.pendings

\* ---- Arc<SimpleWakeShared> ----
FreeCell == [live |-> FALSE, strong |-> 0, semaphore |-> FALSE, allocs |-> 0, frees |-> 0]

\* Arc::new(SimpleWakeShared { semaphore: Semaphore::new(false) })
ArcNew(hp, a) ==
    [hp EXCEPT ![a] = [live |-> TRUE, strong |-> 1, semaphore |-> FALSE,
                       allocs |-> @.allocs + 1, frees |-> @.frees]]

\* Arc::clone: one more share of the same cell
ArcClone(hp, a) == [hp EXCEPT ![a].strong = @ + 1]

\* drop of an Arc: one share less, the cell is freed when none is left
ArcDrop(hp, a) ==
    IF hp[a].strong - 1 = 0
    THEN [hp EXCEPT ![a].strong = 0, ![a].live = FALSE, ![a].frees = @ + 1]
    ELSE [hp EXCEPT ![a].strong = @ - 1]

\* Semaphore::signal_if_needed: the single permit becomes available
signal_if_needed(hp, a) == [hp EXCEPT ![a].semaphore = TRUE]

\* the allocator hands out a cell that is not live
Fresh(hp) == CHOOSE a \in Addr : ~hp[a].live /\ \A b \in Addr : ~hp[b].live => a <= b

Give(hd, h, a) == [hd EXCEPT ![h][a] = @ + 1]
Take(hd, h, a) == [hd EXCEPT ![h][a] = @ - 1]

\* contexts: ids of logwise contexts; the calling thread starts in context
\* 1 or 2, a new thread starts in ThreadRoot, the task gets TaskId
ThreadRoot == 3
TaskId == 4
Threads == {"caller", "spawned"}
\* the wake calls are not counted in this execution
NotCounted == [counting |-> FALSE, n |-> 0]
\* no context: spawn_on has not made one yet
NoContext == [id |-> Null, parent |-> Null, label |-> ""]

\* the state every entry point starts from, apart from the executor's own
Start ==
    /\ result = Null
    /\ polls = 0
    /\ heap = [a \in Addr |-> FreeCell]
    /\ shared = Null
    /\ local = Null
    /\ waker = Null
    /\ held = [h \in Holders |-> [a \in Addr |-> 0]]
    /\ waking = [h \in Holders |-> Null]
    /\ wokenSincePoll = FALSE
    /\ reentrant = FALSE
    /\ racing = FALSE
    /\ prev = [reentrant |-> FALSE, racing |-> FALSE]
    /\ wakesSinceWait = 0
    /\ resumedBy = 0
    /\ lastOp = Op("none", Null)
    /\ polling = 0
    /\ data = <<>>
    /\ new_context = NoContext
    /\ pushed_id = Null
    /\ returned = <<>>
    /\ tnow = Null
    /\ wakeAt = Null
    /\ dur = Null

\* spin_on or sleep_on called directly on the calling thread
Init ==
    /\ executor \in {"spin_on", "sleep_on"}
    /\ api = executor
    /\ thread = "caller"
    /\ caller = "call"
    /\ current = [t \in Threads |-> IF t = "caller" THEN 1 ELSE ThreadRoot]
    /\ now = 0
    /\ poll_after = 0
    /\ new_context = NoContext
    /\ thread_name = "worker"
    /\ pushed_id = Null
    /\ returned = <<>>
    /\ tnow = Null
    /\ wakeAt = Null
    /\ method = "none"
    /\ wakes = NotCounted
    /\ dur = Null
    /\ polling = 0
    /\ data = <<>>
    /\ pc = "start"
    /\ future \in Futures
    /\ result = Null
    /\ polls = 0
    /\ heap = [a \in Addr |-> FreeCell]
    /\ shared = Null
    /\ local = Null
    /\ waker = Null
    /\ held = [h \in Holders |-> [a \in Addr |-> 0]]
    /\ waking = [h \in Holders |-> Null]
    /\ wokenSincePoll = FALSE
    /\ reentrant = FALSE
    /\ racing = FALSE
    /\ prev = [reentrant |-> FALSE, racing |-> FALSE]
    /\ wakesSinceWait = 0
    /\ resumedBy = 0
    /\ lastOp = Op("none", Null)

\* ---- the future's side of a poll ----
\* entering Future::poll: a counting future advances its count
FuturePoll(f) == IF f.kind = "Counter" THEN [f EXCEPT !.count = @ + 1] ELSE f

\* the poll of the future begins: its count advances, and the poll that
\* completes it pushes its value to the shared vector
PollStarts ==
    /\ polls < MaxPolls
    /\ polls' = polls + 1
    /\ future' = FuturePoll(future)
    /\ prev' = [reentrant |-> reentrant, racing |-> racing]
    /\ wokenSincePoll' = FALSE
    /\ reentrant' = FALSE
    /\ racing' = FALSE
    /\ polling' = polling + 1
    /\ data' = IF PollReady(FuturePoll(future)) THEN Append(data, future.val) ELSE data
    /\ UNCHANGED waitVars

\* ---- spin_on ----
\* let mut context = new_context();
SpinOnEnter ==
    /\ executor = "spin_on" /\ pc = "start"
    /\ pc' = "poll"
    /\ lastOp' = Op("exec", Null)
    /\ UNCHANGED <<pollVars, envVars>>
    /\ UNCHANGED <<executor, future, result, polls, heap, shared, local, waker,
                   held, waking, ghostVars>>

\* future.as_mut().poll(&mut context) is called
SpinPollBegin ==
    /\ executor = "spin_on" /\ pc = "poll"
    /\ PollStarts
    /\ pc' = "in_poll"
    /\ lastOp' = Op("exec", Null)
    /\ UNCHANGED envVars
    /\ UNCHANGED <<executor, result, heap, shared, local, waker, held, waking>>

\* NOOP_WAKER_VTABLE: clone, wake, wake_by_ref and drop of the no-op waker
\* change nothing
NoopWakerOp ==
    /\ executor = "spin_on" /\ pc = "in_poll"
    /\ future.kind = "Counter"
    /\ wokenSincePoll' = TRUE
    /\ reentrant' = TRUE
    /\ lastOp' = Op("noop", Null)
    /\ UNCHANGED <<pollVars, envVars>>
    /\ UNCHANGED <<execVars, heap, held, waking, racing, prev, waitVars>>

\* spin_on that takes the first poll result for the final one
SpinPollEnd_FirstPoll ==
    /\ executor = "spin_on" /\ pc = "in_poll"
    /\ result' = future.val /\ pc' = "done"
    /\ lastOp' = Op("exec", Null)
    /\ polling' = polling - 1
    /\ data' = data
    /\ UNCHANGED envVars
    /\ UNCHANGED <<executor, future, polls, heap, shared, local, waker,
                   held, waking, ghostVars>>

\* the poll returns: Ready(val) leaves spin_on, Pending goes to the spin hint
SpinPollEnd ==
    /\ executor = "spin_on" /\ pc = "in_poll"
    /\ IF PollReady(future)
       THEN result' = future.val /\ pc' = "done"
       ELSE result' = result /\ pc' = "spin_hint"
    /\ lastOp' = Op("exec", Null)
    /\ polling' = polling - 1
    /\ data' = data
    /\ UNCHANGED envVars
    /\ UNCHANGED <<executor, future, polls, heap, shared, local, waker,
                   held, waking, ghostVars>>

\* a spin_on that parks the thread between polls instead of spinning
SpinHint_Parks ==
    /\ executor = "spin_on" /\ pc = "spin_hint"
    /\ pc' = "wait"
    /\ lastOp' = Op("exec", Null)
    /\ UNCHANGED <<pollVars, envVars>>
    /\ UNCHANGED <<executor, future, result, polls, heap, shared, local, waker,
                   held, waking, ghostVars>>

\* std::hint::spin_loop(), then the loop polls again
SpinHint ==
    /\ executor = "spin_on" /\ pc = "spin_hint"
    /\ pc' = "poll"
    /\ lastOp' = Op("exec", Null)
    /\ UNCHANGED <<pollVars, envVars>>
    /\ UNCHANGED <<executor, future, result, polls, heap, shared, local, waker,
                   held, waking, ghostVars>>

\* a sleep_on that takes a SimpleWakeShared left over from an earlier call
\* when there is one
SleepOnEnter_Reuses ==
    /\ executor = "sleep_on" /\ pc = "start"
    /\ \E a \in Addr : ~heap[a].live
    /\ LET a == IF \E b \in Addr : heap[b].live
                THEN CHOOSE b \in Addr : heap[b].live
                ELSE Fresh(heap) IN
         /\ heap' = IF heap[a].live
                    THEN ArcClone(ArcClone(heap, a), a)
                    ELSE ArcClone(ArcNew(heap, a), a)
         /\ shared' = a
         /\ local' = a
         /\ waker' = a
    /\ pc' = "poll"
    /\ lastOp' = Op("exec", Null)
    /\ UNCHANGED <<pollVars, envVars>>
    /\ UNCHANGED <<executor, future, result, polls, held, waking, ghostVars>>

\* ---- sleep_on ----
\* shared = Arc::new(..); local = shared.clone(); waker = Waker::from_raw(..)
SleepOnEnter ==
    /\ executor = "sleep_on" /\ pc = "start"
    /\ \E a \in Addr : ~heap[a].live
    /\ LET a == Fresh(heap) IN
         /\ heap' = ArcClone(ArcNew(heap, a), a)
         /\ shared' = a
         /\ local' = a
         /\ waker' = a
    /\ pc' = "poll"
    /\ lastOp' = Op("exec", Null)
    /\ UNCHANGED <<pollVars, envVars>>
    /\ UNCHANGED <<executor, future, result, polls, held, waking, ghostVars>>

\* future.as_mut().poll(&mut context) is called
SleepPollBegin ==
    /\ executor = "sleep_on" /\ pc = "poll"
    /\ PollStarts
    /\ pc' = "in_poll"
    /\ lastOp' = Op("exec", Null)
    /\ UNCHANGED envVars
    /\ UNCHANGED <<executor, result, heap, shared, local, waker, held, waking>>

\* sleep_on that polls again after Ready when a wake is pending
SleepPollEnd_Repolls ==
    /\ executor = "sleep_on" /\ pc = "in_poll"
    /\ waking[Fut] = Null
    /\ IF PollReady(future) /\ ~heap[local].semaphore
       THEN result' = future.val /\ pc' = "drop_waker"
       ELSE result' = result /\ pc' = IF PollReady(future) THEN "poll" ELSE "wait"
    /\ lastOp' = Op("exec", Null)
    /\ polling' = polling - 1
    /\ data' = data
    /\ UNCHANGED envVars
    /\ UNCHANGED <<executor, future, polls, heap, shared, local, waker,
                   held, waking, ghostVars>>

\* sleep_on that returns after the first poll whatever its result
SleepPollEnd_FirstPoll ==
    /\ executor = "sleep_on" /\ pc = "in_poll"
    /\ waking[Fut] = Null
    /\ result' = future.val /\ pc' = "drop_waker"
    /\ lastOp' = Op("exec", Null)
    /\ polling' = polling - 1
    /\ data' = data
    /\ UNCHANGED envVars
    /\ UNCHANGED <<executor, future, polls, heap, shared, local, waker,
                   held, waking, ghostVars>>

\* the poll returns: Ready(val) starts the return, Pending goes to the wait
SleepPollEnd ==
    /\ executor = "sleep_on" /\ pc = "in_poll"
    /\ waking[Fut] = Null
    /\ IF PollReady(future)
       THEN result' = future.val /\ pc' = "drop_waker"
       ELSE result' = result /\ pc' = "wait"
    /\ lastOp' = Op("exec", Null)
    /\ polling' = polling - 1
    /\ data' = data
    /\ UNCHANGED envVars
    /\ UNCHANGED <<executor, future, polls, heap, shared, local, waker,
                   held, waking, ghostVars>>

\* a wait that returns on the permit but leaves it in place
SleepWait_NoTake ==
    /\ executor = "sleep_on" /\ pc = "wait"
    /\ heap[local].semaphore
    /\ pc' = "poll"
    /\ resumedBy' = wakesSinceWait
    /\ wakesSinceWait' = 0
    /\ wakes' = wakes
    /\ lastOp' = Op("exec", Null)
    /\ UNCHANGED <<pollVars, envVars>>
    /\ UNCHANGED <<executor, future, result, polls, heap, shared, local, waker,
                   held, waking, wokenSincePoll, reentrant, racing, prev>>

\* a wait that returns whether or not the permit is there
SleepWait_Spurious ==
    /\ executor = "sleep_on" /\ pc = "wait"
    /\ heap' = [heap EXCEPT ![local].semaphore = FALSE]
    /\ pc' = "poll"
    /\ resumedBy' = wakesSinceWait
    /\ wakesSinceWait' = 0
    /\ wakes' = wakes
    /\ lastOp' = Op("exec", Null)
    /\ UNCHANGED <<pollVars, envVars>>
    /\ UNCHANGED <<executor, future, result, polls, shared, local, waker,
                   held, waking, wokenSincePoll, reentrant, racing, prev>>

\* local.semaphore.wait(): blocks until the permit is there and takes it
SleepWait ==
    /\ executor = "sleep_on" /\ pc = "wait"
    /\ heap[local].semaphore
    /\ heap' = [heap EXCEPT ![local].semaphore = FALSE]
    /\ pc' = "poll"
    /\ resumedBy' = wakesSinceWait
    /\ wakesSinceWait' = 0
    /\ wakes' = wakes
    /\ lastOp' = Op("exec", Null)
    /\ UNCHANGED <<pollVars, envVars>>
    /\ UNCHANGED <<executor, future, result, polls, shared, local, waker,
                   held, waking, wokenSincePoll, reentrant, racing, prev>>

\* return val: `waker` goes out of scope (vtable drop)
SleepDropWaker ==
    /\ executor = "sleep_on" /\ pc = "drop_waker"
    /\ heap' = ArcDrop(heap, waker)
    /\ waker' = Null
    /\ pc' = "drop_local"
    /\ lastOp' = Op("exec", Null)
    /\ UNCHANGED <<pollVars, envVars>>
    /\ UNCHANGED <<executor, future, result, polls, shared, local,
                   held, waking, ghostVars>>

\* return val: `local` goes out of scope
SleepDropLocal ==
    /\ executor = "sleep_on" /\ pc = "drop_local"
    /\ heap' = ArcDrop(heap, local)
    /\ local' = Null
    /\ pc' = "drop_future"
    /\ lastOp' = Op("exec", Null)
    /\ UNCHANGED <<pollVars, envVars>>
    /\ UNCHANGED <<executor, future, result, polls, shared, waker,
                   held, waking, ghostVars>>

\* return val: the future is dropped, with every waker clone it still
\* holds; then sleep_on has returned
SleepDropFuture ==
    /\ executor = "sleep_on" /\ pc = "drop_future"
    /\ IF \E a \in Addr : held[Fut][a] > 0
       THEN LET a == CHOOSE b \in Addr : held[Fut][b] > 0 IN
              /\ heap' = ArcDrop(heap, a)
              /\ held' = Take(held, Fut, a)
              /\ pc' = pc
       ELSE /\ pc' = "done"
            /\ UNCHANGED <<heap, held>>
    /\ lastOp' = Op("exec", Null)
    /\ UNCHANGED <<pollVars, envVars>>
    /\ UNCHANGED <<executor, future, result, polls, shared, local, waker,
                   waking, ghostVars>>

\* ---- CONDVAR_WAKER_VTABLE, called by the holders of waker handles ----
\* a holder is free to call into the vtable: a thread at any time when it
\* is not inside wake(); the future only while sleep_on is polling it
CanAct(h) ==
    /\ waking[h] = Null
    /\ h = Fut => (executor = "sleep_on" /\ pc = "in_poll" /\ future.kind = "Counter")

\* h owns a handle to cell a
Owns(h, a) == held[h][a] > 0

\* h can reach a handle to cell a: one it owns, or (the future) cx.waker()
Reaches(h, a) == Owns(h, a) \/ (h = Fut /\ waker = a)

\* bookkeeping of a wake / wake_by_ref call made by holder h
Woke(h) ==
    /\ wokenSincePoll' = TRUE
    /\ reentrant' = (reentrant \/ h = Fut)
    /\ racing' = (racing \/ (h # Fut /\ pc = "in_poll"))
    /\ prev' = prev
    /\ wakesSinceWait' = wakesSinceWait + 1
    /\ resumedBy' = resumedBy
    /\ wakes' = IF wakes.counting THEN [wakes EXCEPT !.n = @ + 1] ELSE wakes

\* a clone that builds a SimpleWakeShared of its own instead of sharing
Clone_Fresh(h, d, a) ==
    /\ CanAct(h) /\ Reaches(h, a)
    /\ d = h \/ (h = Fut /\ d \in Wakers)
    /\ \E b \in Addr : ~heap[b].live
    /\ heap' = ArcNew(heap, Fresh(heap))
    /\ held' = Give(held, d, Fresh(heap))
    /\ lastOp' = Op("clone", a)
    /\ UNCHANGED <<pollVars, envVars>>
    /\ UNCHANGED <<execVars, waking, ghostVars>>

\* vtable clone: a new handle to the same cell, given to holder d
Clone(h, d, a) ==
    /\ CanAct(h) /\ Reaches(h, a)
    /\ d = h \/ (h = Fut /\ d \in Wakers)
    /\ heap[a].strong < MaxStrong
    /\ heap' = ArcClone(heap, a)
    /\ held' = Give(held, d, a)
    /\ lastOp' = Op("clone", a)
    /\ UNCHANGED <<pollVars, envVars>>
    /\ UNCHANGED <<execVars, waking, ghostVars>>

\* a wake_by_ref that polls the future inline, on the waking thread
WakeByRef_Polls(h, a) ==
    /\ CanAct(h) /\ Reaches(h, a)
    /\ wakesSinceWait < MaxWakes
    /\ heap' = signal_if_needed(heap, a)
    /\ Woke(h)
    /\ lastOp' = Op("wake_by_ref", a)
    /\ polling' = polling + 1
    /\ data' = data
    /\ UNCHANGED envVars
    /\ UNCHANGED <<execVars, held, waking>>

\* an edge-triggered wake_by_ref: it notifies only a thread that is
\* already waiting
WakeByRef_Edge(h, a) ==
    /\ CanAct(h) /\ Reaches(h, a)
    /\ wakesSinceWait < MaxWakes
    /\ heap' = IF pc = "wait" THEN signal_if_needed(heap, a) ELSE heap
    /\ Woke(h)
    /\ lastOp' = Op("wake_by_ref", a)
    /\ UNCHANGED <<pollVars, envVars>>
    /\ UNCHANGED <<execVars, held, waking>>

\* a wake_by_ref without the mem::forget: the borrowed Arc is dropped
WakeByRef_Drops(h, a) ==
    /\ CanAct(h) /\ Reaches(h, a)
    /\ wakesSinceWait < MaxWakes
    /\ heap' = ArcDrop(signal_if_needed(heap, a), a)
    /\ Woke(h)
    /\ lastOp' = Op("wake_by_ref", a)
    /\ UNCHANGED <<pollVars, envVars>>
    /\ UNCHANGED <<execVars, held, waking>>

\* vtable wake_by_ref: signal, the handle stays with the caller
WakeByRef(h, a) ==
    /\ CanAct(h) /\ Reaches(h, a)
    /\ wakesSinceWait < MaxWakes
    /\ heap' = signal_if_needed(heap, a)
    /\ Woke(h)
    /\ lastOp' = Op("wake_by_ref", a)
    /\ UNCHANGED <<pollVars, envVars>>
    /\ UNCHANGED <<execVars, held, waking>>

\* a wake that gives its handle up without signalling
Wake_NoSignal(h, a) ==
    /\ CanAct(h) /\ Owns(h, a)
    /\ wakesSinceWait < MaxWakes
    /\ heap' = heap
    /\ waking' = [waking EXCEPT ![h] = a]
    /\ Woke(h)
    /\ lastOp' = Op("wake", a)
    /\ UNCHANGED <<pollVars, envVars>>
    /\ UNCHANGED <<execVars, held>>

\* vtable wake, first half: signal through the handle being consumed
Wake(h, a) ==
    /\ CanAct(h) /\ Owns(h, a)
    /\ wakesSinceWait < MaxWakes
    /\ heap' = signal_if_needed(heap, a)
    /\ waking' = [waking EXCEPT ![h] = a]
    /\ Woke(h)
    /\ lastOp' = Op("wake", a)
    /\ UNCHANGED <<pollVars, envVars>>
    /\ UNCHANGED <<execVars, held>>

\* a wake that forgets its Arc instead of dropping it
WakeRelease_Forgets(h) ==
    /\ waking[h] # Null
    /\ heap' = heap
    /\ held' = Take(held, h, waking[h])
    /\ waking' = [waking EXCEPT ![h] = Null]
    /\ lastOp' = Op("wake_release", waking[h])
    /\ UNCHANGED <<pollVars, envVars>>
    /\ UNCHANGED <<execVars, ghostVars>>

\* vtable wake, second half: the consumed handle's Arc is dropped
WakeRelease(h) ==
    /\ waking[h] # Null
    /\ heap' = ArcDrop(heap, waking[h])
    /\ held' = Take(held, h, waking[h])
    /\ waking' = [waking EXCEPT ![h] = Null]
    /\ lastOp' = Op("wake_release", waking[h])
    /\ UNCHANGED <<pollVars, envVars>>
    /\ UNCHANGED <<execVars, ghostVars>>

\* vtable drop: the handle's Arc is dropped
Drop(h, a) ==
    /\ CanAct(h) /\ Owns(h, a)
    /\ heap' = ArcDrop(heap, a)
    /\ held' = Take(held, h, a)
    /\ lastOp' = Op("drop", a)
    /\ UNCHANGED <<pollVars, envVars>>
    /\ UNCHANGED <<execVars, waking, ghostVars>>

\* every step the executor thread takes, the future's code included
ExecutorStep ==
    \/ WakeRelease(Fut)
    \/ SpinOnEnter \/ SpinPollBegin \/ SpinPollEnd \/ SpinHint
    \/ SleepOnEnter \/ SleepPollBegin \/ SleepPollEnd \/ SleepWait
    \/ SleepDropWaker \/ SleepDropLocal \/ SleepDropFuture

Next ==
    \/ SpinOnEnter
    \/ SpinPollBegin
    \/ NoopWakerOp
    \/ SpinPollEnd
    \/ SpinHint
    \/ SleepOnEnter
    \/ SleepPollBegin
    \/ SleepPollEnd
    \/ SleepWait
    \/ SleepDropWaker
    \/ SleepDropLocal
    \/ SleepDropFuture
    \/ \E h \in Holders, d \in Holders, a \in Addr : Clone(h, d, a)
    \/ \E h \in Holders, a \in Addr : WakeByRef(h, a)
    \/ \E h \in Holders, a \in Addr : Wake(h, a)
    \/ \E h \in Holders : WakeRelease(h)
    \/ \E h \in Holders, a \in Addr : Drop(h, a)

Spec == Init /\ [][Next]_vars

\* the executor thread keeps running whenever it can take a step; the
\* other threads are under no obligation to ever call wake
FairSpec == Spec /\ WF_vars(ExecutorStep)

\* ---- spawn_on ----
\* the futures spawn_on is given: like the doc example they push 42
SpawnFutures == {f \in Futures : f.val # 3}

\* the calls of spawn_on: the caller's current context and the thread name
SpawnCalls == {[context |-> 1, name |-> "worker"], [context |-> 2, name |-> "io"]}

InitSpawn ==
    /\ Start
    /\ method = "none"
    /\ wakes = NotCounted
    /\ future \in SpawnFutures
    /\ executor = "sleep_on"
    /\ api = "spawn_on"
    /\ pc = "unspawned"
    /\ thread = "none"
    /\ caller = "call"
    /\ \E call \in SpawnCalls :
         /\ current = [t \in Threads |-> IF t = "caller" THEN call.context ELSE ThreadRoot]
         /\ thread_name = call.name
    /\ now = 0
    /\ poll_after = 0

\* Context::new_task(Some(parent), label)
new_task(parent, label) == [id |-> TaskId, parent |-> parent, label |-> label]

\* Context::set_current(c) on thread t
set_current(cur, t, c) == [cur EXCEPT ![t] = c.id]

\* Context::pop(id) on thread t: the context with that id, when it is the
\* current one, gives way to its parent
pop(cur, t, c, id) == IF cur[t] = id /\ c.id = id THEN [cur EXCEPT ![t] = c.parent] ELSE cur

\* a spawn_on that makes the new context current where it is made
SpawnOnCall_Installs ==
    /\ api = "spawn_on" /\ caller = "call"
    /\ new_context' = new_task(current["caller"], thread_name)
    /\ current' = set_current(current, "caller", new_context')
    /\ caller' = "spawning"
    /\ lastOp' = Op("exec", Null)
    /\ UNCHANGED <<execVars, heap, held, waking, ghostVars, pollVars, api, thread,
                   thread_name, pushed_id, returned, timeVars>>

\* prior_context = Context::current(); new_context = Context::new_task(..)
SpawnOnCall ==
    /\ api = "spawn_on" /\ caller = "call"
    /\ new_context' = new_task(current["caller"], thread_name)
    /\ caller' = "spawning"
    /\ lastOp' = Op("exec", Null)
    /\ UNCHANGED <<execVars, heap, held, waking, ghostVars, pollVars, api, thread,
                   current, thread_name, pushed_id, returned, timeVars>>

\* a spawn_on that waits for the thread to finish before it returns
SpawnOnReturn_Joins ==
    /\ api = "spawn_on" /\ caller = "spawned"
    /\ pc = "exited"
    /\ caller' = "returned"
    /\ lastOp' = Op("exec", Null)
    /\ UNCHANGED <<execVars, heap, held, waking, ghostVars, pollVars, api, thread,
                   current, new_context, thread_name, pushed_id, returned, timeVars>>

\* thread::Builder::spawn succeeded: the closure starts on the new thread
SpawnThreadOk ==
    /\ api = "spawn_on" /\ caller = "spawning"
    /\ thread' = "spawned"
    /\ pc' = "entry"
    /\ caller' = "spawned"
    /\ lastOp' = Op("spawned", Null)
    /\ UNCHANGED <<executor, future, result, polls, shared, local, waker, heap, held,
                   waking, ghostVars, pollVars, api, current, new_context,
                   thread_name, pushed_id, returned, timeVars>>

\* a spawn_on that runs the future on the calling thread when no thread
\* can be created
SpawnThreadFail_Fallback ==
    /\ api = "spawn_on" /\ caller = "spawning"
    /\ thread' = "caller"
    /\ pc' = "start"
    /\ caller' = "spawned"
    /\ lastOp' = Op("spawn_failed", Null)
    /\ UNCHANGED <<executor, future, result, polls, shared, local, waker, heap, held,
                   waking, ghostVars, pollVars, api, current, new_context,
                   thread_name, pushed_id, returned, timeVars>>

\* thread::Builder::spawn failed: .expect("Cant spawn thread") panics
SpawnThreadFail ==
    /\ api = "spawn_on" /\ caller = "spawning"
    /\ caller' = "panicked"
    /\ lastOp' = Op("spawn_failed", Null)
    /\ UNCHANGED <<execVars, heap, held, waking, ghostVars, pollVars, api, thread,
                   current, new_context, thread_name, pushed_id, returned, timeVars>>

\* spawn_on returns to its caller
SpawnOnReturn ==
    /\ api = "spawn_on" /\ caller = "spawned"
    /\ caller' = "returned"
    /\ lastOp' = Op("exec", Null)
    /\ UNCHANGED <<execVars, heap, held, waking, ghostVars, pollVars, api, thread,
                   current, new_context, thread_name, pushed_id, returned, timeVars>>

\* a thread closure that calls sleep_on without installing the context
ThreadEntry_NoInstall ==
    /\ api = "spawn_on" /\ pc = "entry"
    /\ pushed_id' = new_context.id
    /\ current' = current
    /\ pc' = "start"
    /\ lastOp' = Op("exec", Null)
    /\ UNCHANGED <<executor, future, result, polls, shared, local, waker, heap, held,
                   waking, ghostVars, pollVars, api, thread, caller, new_context,
                   thread_name, returned, timeVars>>

\* on the new thread: pushed_id = new_context.context_id();
\* Context::set_current(new_context); then sleep_on(future) is called
ThreadEntry ==
    /\ api = "spawn_on" /\ pc = "entry"
    /\ pushed_id' = new_context.id
    /\ current' = set_current(current, thread, new_context)
    /\ pc' = "start"
    /\ lastOp' = Op("exec", Null)
    /\ UNCHANGED <<executor, future, result, polls, shared, local, waker, heap, held,
                   waking, ghostVars, pollVars, api, thread, caller, new_context,
                   thread_name, returned, timeVars>>

\* on the new thread, after sleep_on returned: Context::pop(pushed_id)
ThreadPop ==
    /\ api = "spawn_on" /\ pc = "done"
    /\ current' = pop(current, thread, new_context, pushed_id)
    /\ pc' = "exited"
    /\ lastOp' = Op("pop", pushed_id)
    /\ UNCHANGED <<executor, future, result, polls, shared, local, waker, heap, held,
                   waking, ghostVars, pollVars, api, thread, caller, new_context,
                   thread_name, pushed_id, returned, timeVars>>

\* every step of the spawned thread
ThreadStep == ThreadEntry \/ ExecutorStep \/ ThreadPop

SpawnNext ==
    \/ SpawnOnCall
    \/ SpawnThreadOk
    \/ SpawnThreadFail
    \/ SpawnOnReturn
    \/ ThreadEntry
    \/ ThreadPop
    \/ SleepOnEnter
    \/ SleepPollBegin
    \/ SleepPollEnd
    \/ SleepWait
    \/ SleepDropWaker
    \/ SleepDropLocal
    \/ SleepDropFuture
    \/ \E h \in Holders, d \in Holders, a \in Addr : Clone(h, d, a)
    \/ \E h \in Holders, a \in Addr : WakeByRef(h, a)
    \/ \E h \in Holders, a \in Addr : Wake(h, a)
    \/ \E h \in Holders : WakeRelease(h)
    \/ \E h \in Holders, a \in Addr : Drop(h, a)

SpawnSpec == InitSpawn /\ [][SpawnNext]_vars

\* both threads keep running; whether a thread can be created, and whether
\* anybody wakes, is up to the environment
FairSpawnSpec ==
    SpawnSpec /\ WF_vars(ThreadStep) /\ WF_vars(SpawnOnCall \/ SpawnOnReturn)

\* ---- sleep_on with its wake calls counted ----
InitCount ==
    /\ Start
    /\ method = "none"
    /\ wakes = [counting |-> TRUE, n |-> 0]
    /\ future \in SpawnFutures
    /\ executor = "sleep_on"
    /\ api = "sleep_on"
    /\ pc = "start"
    /\ thread = "caller"
    /\ caller = "call"
    /\ current = [t \in Threads |-> IF t = "caller" THEN 1 ELSE ThreadRoot]
    /\ thread_name = "worker"
    /\ now = 0
    /\ poll_after = 0

CountNext ==
    \/ SleepOnEnter
    \/ SleepPollBegin
    \/ SleepPollEnd
    \/ SleepWait
    \/ SleepDropWaker
    \/ SleepDropLocal
    \/ SleepDropFuture
    \/ \E h \in Holders, d \in Holders, a \in Addr : Clone(h, d, a)
    \/ \E h \in Holders, a \in Addr : WakeByRef(h, a)
    \/ \E h \in Holders, a \in Addr : Wake(h, a)
    \/ \E h \in Holders : WakeRelease(h)
    \/ \E h \in Holders, a \in Addr : Drop(h, a)

CountSpec == InitCount /\ [][CountNext]_vars

\* ---- spin_on and sleep_on on a self-waking future ----
\* a future that wakes the waker it is polled with before every Pending
\* result: its poll does not return Pending before that call
SelfWaking == PollReady(future) \/ reentrant

InitEquiv ==
    /\ Start
    /\ method = "none"
    /\ wakes = NotCounted
    /\ executor \in {"spin_on", "sleep_on"}
    /\ api = executor
    /\ future \in {f \in Futures : f.kind = "Counter"}
    /\ pc = "start"
    /\ thread = "caller"
    /\ caller = "call"
    /\ current = [t \in Threads |-> IF t = "caller" THEN 1 ELSE ThreadRoot]
    /\ thread_name = "worker"
    /\ now = 0
    /\ poll_after = 0

\* the self-waking future's poll returns to spin_on
SelfWakingSpinPollEnd == SelfWaking /\ SpinPollEnd
\* the self-waking future's poll returns to sleep_on
SelfWakingSleepPollEnd == SelfWaking /\ SleepPollEnd
\* the future calls cx.waker().wake_by_ref() inside its poll
SelfWake == \E a \in Addr : WakeByRef(Fut, a)

EquivNext ==
    \/ SpinOnEnter
    \/ SpinPollBegin
    \/ NoopWakerOp
    \/ SelfWakingSpinPollEnd
    \/ SpinHint
    \/ SleepOnEnter
    \/ SleepPollBegin
    \/ SelfWake
    \/ SelfWakingSleepPollEnd
    \/ SleepWait
    \/ SleepDropWaker
    \/ SleepDropLocal
    \/ SleepDropFuture

EquivSpec == InitEquiv /\ [][EquivNext]_vars

\* the executor thread, which also runs the future, keeps running
FairEquivSpec == EquivSpec /\ WF_vars(EquivNext)

\* ---- spawn_local on a native target ----
\* spawn_local(future, _debug_label) is called
InitLocal ==
    /\ Start
    /\ method = "none"
    /\ wakes = NotCounted
    /\ future \in SpawnFutures
    /\ executor = "sleep_on"
    /\ api = "spawn_local"
    /\ pc = "start"
    /\ thread = "caller"
    /\ caller = "call"
    /\ current = [t \in Threads |-> IF t = "caller" THEN 1 ELSE ThreadRoot]
    /\ thread_name = "worker"
    /\ now = 0
    /\ poll_after = 0

\* a spawn_local that returns while the future is still being run
SpawnLocalReturn_Detached ==
    /\ api = "spawn_local" /\ caller = "call"
    /\ pc \in {"wait", "done"}
    /\ caller' = "returned"
    /\ lastOp' = Op("local_return", Null)
    /\ UNCHANGED <<api, thread, current, new_context, thread_name, pushed_id,
                   returned, timeVars, pollVars>>
    /\ UNCHANGED <<execVars, heap, held, waking, ghostVars>>

\* #[cfg(not(target_arch = "wasm32"))] sleep_on(future); has returned and
\* so does spawn_local
SpawnLocalReturn ==
    /\ api = "spawn_local" /\ caller = "call"
    /\ pc = "done"
    /\ caller' = "returned"
    /\ lastOp' = Op("local_return", Null)
    /\ UNCHANGED <<api, thread, current, new_context, thread_name, pushed_id,
                   returned, timeVars, pollVars>>
    /\ UNCHANGED <<execVars, heap, held, waking, ghostVars>>

LocalNext ==
    \/ SpawnLocalReturn
    \/ SleepOnEnter
    \/ SleepPollBegin
    \/ SleepPollEnd
    \/ SleepWait
    \/ SleepDropWaker
    \/ SleepDropLocal
    \/ SleepDropFuture
    \/ \E h \in Holders, d \in Holders, a \in Addr : Clone(h, d, a)
    \/ \E h \in Holders, a \in Addr : WakeByRef(h, a)
    \/ \E h \in Holders, a \in Addr : Wake(h, a)
    \/ \E h \in Holders : WakeRelease(h)
    \/ \E h \in Holders, a \in Addr : Drop(h, a)

LocalSpec == InitLocal /\ [][LocalNext]_vars

\* ---- poll_once and poll_once_pin ----
\* a future that never completes and uses the waker it is polled with
WakeForever == [kind |-> "WakeForever", count |-> 0, pendings |-> 0, val |-> Null]
PollFutures == Futures \cup {WakeForever}

\* Poll<T>
Pending == [ready |-> FALSE, val |-> Null]
Ready(v) == [ready |-> TRUE, val |-> v]

\* the operations of NOOP_WAKER_VTABLE
NoopOps == {"clone", "wake", "wake_by_ref", "drop"}

\* poll_once(pinned.as_mut()) or poll_once_pin(future) is about to be called
InitPoll ==
    /\ Start
    /\ method = "none"
    /\ wakes = NotCounted
    /\ api \in {"poll_once", "poll_once_pin"}
    /\ executor = api
    /\ pc = "idle"
    /\ future \in PollFutures
    /\ thread = "caller"
    /\ caller = "call"
    /\ current = [t \in Threads |-> IF t = "caller" THEN 1 ELSE ThreadRoot]
    /\ thread_name = "worker"
    /\ now = 0
    /\ poll_after = 0

\* poll_once that polls a copy of the future as it first was
PollOnceCall_Fresh ==
    /\ executor \in {"poll_once", "poll_once_pin"} /\ pc = "idle"
    /\ ~PollReady(future)
    /\ polls < MaxPolls
    /\ polls' = polls + 1
    /\ future' = FuturePoll([future EXCEPT !.count = 0])
    /\ polling' = polling + 1
    /\ data' = IF PollReady(future') THEN Append(data, future.val) ELSE data
    /\ pc' = "in_poll"
    /\ lastOp' = Op("exec", Null)
    /\ UNCHANGED envVars
    /\ UNCHANGED <<executor, result, heap, shared, local, waker, held, waking,
                   ghostVars>>

\* let mut context = new_context(); future.poll(&mut context) is called.
\* The caller does not poll a future again after it returned Ready.
PollOnceCall ==
    /\ executor \in {"poll_once", "poll_once_pin"} /\ pc = "idle"
    /\ ~PollReady(future)
    /\ PollStarts
    /\ pc' = "in_poll"
    /\ lastOp' = Op("exec", Null)
    /\ UNCHANGED envVars
    /\ UNCHANGED <<executor, result, heap, shared, local, waker, held, waking>>

\* a no-op waker whose operations count as a poll
PollNoopOp_Counts ==
    /\ executor \in {"poll_once", "poll_once_pin"}
    /\ future.kind \in {"Counter", "WakeForever"}
    /\ polls > 0 /\ polls < MaxPolls
    /\ polls' = polls + 1
    /\ \E o \in NoopOps : lastOp' = Op("noop", o)
    /\ wokenSincePoll' = (wokenSincePoll \/ pc = "in_poll")
    /\ UNCHANGED <<pollVars, envVars>>
    /\ UNCHANGED <<executor, pc, future, result, shared, local, waker, heap,
                   held, waking, reentrant, racing, prev, waitVars>>

\* NOOP_WAKER_VTABLE: the future, or whatever it handed a clone of the waker
\* to, clones, wakes or drops the no-op waker; the closures do nothing
PollNoopOp ==
    /\ executor \in {"poll_once", "poll_once_pin"}
    /\ future.kind \in {"Counter", "WakeForever"}
    /\ polls > 0
    /\ \E o \in NoopOps : lastOp' = Op("noop", o)
    /\ wokenSincePoll' = (wokenSincePoll \/ pc = "in_poll")
    /\ UNCHANGED <<pollVars, envVars>>
    /\ UNCHANGED <<execVars, heap, held, waking, reentrant, racing, prev,
                   waitVars>>

\* a poll_once that polls again when the poll returned Pending
PollOnceReturn_Loops ==
    /\ executor \in {"poll_once", "poll_once_pin"} /\ pc = "in_poll"
    /\ IF PollReady(future) \/ polls >= MaxPolls
       THEN /\ returned' = Append(returned, IF PollReady(future)
                                            THEN Ready(future.val) ELSE Pending)
            /\ pc' = IF executor = "poll_once" THEN "idle" ELSE "consumed"
            /\ polling' = polling - 1
            /\ UNCHANGED <<future, polls>>
       ELSE /\ future' = FuturePoll(future)
            /\ polls' = polls + 1
            /\ UNCHANGED <<returned, pc, polling>>
    /\ data' = data
    /\ lastOp' = Op("exec", Null)
    /\ UNCHANGED <<api, spawnVars, timeVars>>
    /\ UNCHANGED <<executor, result, heap, shared, local, waker, held, waking,
                   ghostVars>>

\* the poll returns and its result is the function's result; poll_once_pin
\* owned the future, which is dropped with it
PollOnceReturn ==
    /\ executor \in {"poll_once", "poll_once_pin"} /\ pc = "in_poll"
    /\ returned' = Append(returned, IF PollReady(future)
                                    THEN Ready(future.val) ELSE Pending)
    /\ pc' = IF executor = "poll_once" THEN "idle" ELSE "consumed"
    /\ polling' = polling - 1
    /\ data' = data
    /\ lastOp' = Op("exec", Null)
    /\ UNCHANGED <<api, spawnVars, timeVars>>
    /\ UNCHANGED <<executor, future, result, polls, heap, shared, local, waker,
                   held, waking, ghostVars>>

PollNext ==
    \/ PollOnceCall
    \/ PollNoopOp
    \/ PollOnceReturn

PollSpec == InitPoll /\ [][PollNext]_vars

\* the future polled directly, n times from its first state
RECURSIVE NthPoll(_, _)
NthPoll(f, n) == IF n = 0 THEN f ELSE FuturePoll(NthPoll(f, n - 1))
\* the result of the n-th direct poll of f
DirectResult(f, n) ==
    IF PollReady(NthPoll(f, n)) THEN Ready(NthPoll(f, n).val) ELSE Pending
\* the future as it was handed to the first call
FirstFuture == [future EXCEPT !.count = 0]

\* ---- sleep_on called again after it returned ----
\* the future of the first call is Pending once and hands out clones of its
\* waker; the future of the second call never uses its waker, so that only
\* handles of the first call exist while the second one waits
FirstFutures == {f \in SpawnFutures : f.kind = "Counter" /\ f.pendings = 1}
AgainFutures == {PendForever}

\* the first call of sleep_on
InitAgain ==
    /\ Start
    /\ method = "none"
    /\ wakes = NotCounted
    /\ future \in FirstFutures
    /\ executor = "sleep_on"
    /\ api = "sleep_on"
    /\ pc = "start"
    /\ thread = "caller"
    /\ caller = "call"
    /\ current = [t \in Threads |-> IF t = "caller" THEN 1 ELSE ThreadRoot]
    /\ thread_name = "worker"
    /\ now = 0
    /\ poll_after = 0

\* sleep_on has returned and is called once more, with another future; the
\* waker clones other threads still hold stay as they are
SleepOnAgain ==
    /\ executor = "sleep_on" /\ pc = "done"
    /\ returned = <<>>
    /\ returned' = Append(returned, Ready(result))
    /\ future' \in AgainFutures
    /\ pc' = "start"
    /\ result' = Null
    /\ polls' = 0
    /\ shared' = Null
    /\ wokenSincePoll' = FALSE
    /\ reentrant' = FALSE
    /\ racing' = FALSE
    /\ prev' = [reentrant |-> FALSE, racing |-> FALSE]
    /\ wakesSinceWait' = 0
    /\ resumedBy' = 0
    /\ wakes' = wakes
    /\ lastOp' = Op("call", Null)
    /\ UNCHANGED <<api, spawnVars, timeVars, pollVars>>
    /\ UNCHANGED <<executor, local, waker, heap, held, waking>>

AgainNext ==
    \/ SleepOnAgain
    \/ SleepOnEnter
    \/ SleepPollBegin
    \/ SleepPollEnd
    \/ SleepWait
    \/ SleepDropWaker
    \/ SleepDropLocal
    \/ SleepDropFuture
    \/ \E h \in Holders, d \in Holders, a \in Addr : Clone(h, d, a)
    \/ \E h \in Holders, a \in Addr : WakeByRef(h, a)
    \/ \E h \in Holders, a \in Addr : Wake(h, a)
    \/ \E h \in Holders : WakeRelease(h)
    \/ \E h \in Holders, a \in Addr : Drop(h, a)

AgainSpec == InitAgain /\ [][AgainNext]_vars

\* ---- aruntime: SpinRuntime, SleepRuntime, SpawnRuntime ----
\* the clock runs to MaxTime
MaxTime == 2
Times == 0..MaxTime
Runtimes == {"SpinRuntime", "SleepRuntime", "SpawnRuntime"}
Methods == {"spawn", "spawn_async", "spawn_objsafe"}
\* the task's future is ready on its first poll
RtFutures == {f \in Futures : f.kind = "Counter" /\ f.pendings = 0}

\* Instant::duration_since(&self, earlier): saturates to zero when earlier
\* is later than self
duration_since(self, earlier) == IF self >= earlier THEN self - earlier ELSE 0
\* impl Sub<Instant> for Instant
InstantSub(self, other) == duration_since(self, other)

\* SpinRuntime::spawn runs its loop on task.poll_after() and then makes the
\* spawned task; every other method makes the spawned task first
SpinsFirst == api = "SpinRuntime" /\ method = "spawn"

\* a runtime's spawn, spawn_async or spawn_objsafe is called with a task
InitRuntime ==
    /\ Start
    /\ api \in Runtimes
    /\ method \in Methods
    /\ wakes = NotCounted
    /\ executor = IF api = "SpinRuntime" THEN "spin_on" ELSE "sleep_on"
    /\ pc = IF SpinsFirst THEN "rt_check" ELSE "rt_start"
    /\ future \in RtFutures
    /\ thread = "none"
    /\ caller = "call"
    /\ current = [t \in Threads |-> IF t = "caller" THEN 1 ELSE ThreadRoot]
    /\ thread_name = "worker"
    /\ now = 0
    /\ poll_after \in Times

\* time passes
Tick ==
    /\ api \in Runtimes
    /\ now < MaxTime
    /\ now' = now + 1
    /\ lastOp' = Op("tick", Null)
    /\ UNCHANGED <<poll_after, tnow, wakeAt, method, dur>>
    /\ UNCHANGED <<api, spawnVars, returned, pollVars>>
    /\ UNCHANGED <<execVars, heap, held, waking, ghostVars>>

\* task.spawn(self); SpawnRuntime then starts the thread that runs the task,
\* SpinRuntime and SleepRuntime run it on the calling thread
RtTaskSpawn ==
    /\ api \in Runtimes /\ pc = "rt_start"
    /\ thread' = IF api = "SpawnRuntime" THEN "spawned" ELSE "caller"
    /\ pc' = IF SpinsFirst THEN "start" ELSE "rt_check"
    /\ lastOp' = Op("rt", Null)
    /\ UNCHANGED <<api, caller, current, new_context, thread_name, pushed_id,
                   returned, timeVars, pollVars>>
    /\ UNCHANGED <<executor, future, result, polls, shared, local, waker,
                   heap, held, waking, ghostVars>>

\* SpinRuntime: while poll_after > Instant::now() { spin_loop() }
RtSpinLoop ==
    /\ api = "SpinRuntime" /\ pc = "rt_check"
    /\ poll_after > now
    /\ lastOp' = Op("spin_loop", Null)
    /\ UNCHANGED <<pollVars, envVars>>
    /\ UNCHANGED <<execVars, heap, held, waking, ghostVars>>

\* a SpinRuntime that calls spin_on without looking at the clock
RtSpinCheck_NoWait ==
    /\ api = "SpinRuntime" /\ pc = "rt_check"
    /\ pc' = IF SpinsFirst THEN "rt_start" ELSE "start"
    /\ lastOp' = Op("rt", Null)
    /\ UNCHANGED <<pollVars, envVars>>
    /\ UNCHANGED <<executor, future, result, polls, shared, local, waker,
                   heap, held, waking, ghostVars>>

\* SpinRuntime: the loop ends when poll_after > Instant::now() is false;
\* crate::spin_on(spawned) is called
RtSpinCheck ==
    /\ api = "SpinRuntime" /\ pc = "rt_check"
    /\ ~(poll_after > now)
    /\ pc' = IF SpinsFirst THEN "rt_start" ELSE "start"
    /\ lastOp' = Op("rt", Null)
    /\ UNCHANGED <<pollVars, envVars>>
    /\ UNCHANGED <<executor, future, result, polls, shared, local, waker,
                   heap, held, waking, ghostVars>>

\* SleepRuntime: let now = Instant::now(); if spawned.poll_after() > now
\* SpawnRuntime: if spawned.poll_after() > Instant::now()
RtSleepCheck ==
    /\ api \in {"SleepRuntime", "SpawnRuntime"} /\ pc = "rt_check"
    /\ tnow' = IF api = "SleepRuntime" THEN now ELSE tnow
    /\ pc' = IF poll_after > now THEN "rt_dur" ELSE "start"
    /\ lastOp' = Op("rt", Null)
    /\ UNCHANGED <<now, poll_after, wakeAt, method, dur>>
    /\ UNCHANGED <<api, spawnVars, returned, pollVars>>
    /\ UNCHANGED <<executor, future, result, polls, shared, local, waker,
                   heap, held, waking, ghostVars>>

\* let dur = ...: spawn and spawn_objsafe take now.duration_since(poll_after),
\* spawn_async takes poll_after - now; SleepRuntime uses the `now` it read,
\* SpawnRuntime reads Instant::now() again
RtDur ==
    /\ api \in {"SleepRuntime", "SpawnRuntime"} /\ pc = "rt_dur"
    /\ LET t == IF api = "SleepRuntime" THEN tnow ELSE now IN
         dur' = IF method = "spawn_async"
                THEN InstantSub(poll_after, t)
                ELSE duration_since(t, poll_after)
    /\ pc' = "rt_sleep"
    /\ lastOp' = Op("rt", Null)
    /\ UNCHANGED <<now, poll_after, tnow, wakeAt, method>>
    /\ UNCHANGED <<api, spawnVars, returned, pollVars>>
    /\ UNCHANGED <<executor, future, result, polls, shared, local, waker,
                   heap, held, waking, ghostVars>>

\* std::thread::sleep(dur) is called: the thread sleeps for at least dur
RtSleep ==
    /\ api \in {"SleepRuntime", "SpawnRuntime"} /\ pc = "rt_sleep"
    /\ wakeAt' = now + dur
    /\ pc' = "rt_sleeping"
    /\ lastOp' = Op("sleep", dur)
    /\ UNCHANGED <<now, poll_after, tnow, method, dur>>
    /\ UNCHANGED <<api, spawnVars, returned, pollVars>>
    /\ UNCHANGED <<executor, future, result, polls, shared, local, waker,
                   heap, held, waking, ghostVars>>

\* std::thread::sleep returns; crate::sleep_on(spawned) is called
RtSleepDone ==
    /\ api \in {"SleepRuntime", "SpawnRuntime"} /\ pc = "rt_sleeping"
    /\ now >= wakeAt
    /\ pc' = "start"
    /\ lastOp' = Op("rt", Null)
    /\ UNCHANGED <<pollVars, envVars>>
    /\ UNCHANGED <<executor, future, result, polls, shared, local, waker,
                   heap, held, waking, ghostVars>>

\* a runtime whose method returns the observer as soon as the task is made
RtReturn_Early ==
    /\ api \in Runtimes /\ caller = "call"
    /\ thread # "none"
    /\ caller' = "returned"
    /\ lastOp' = Op("rt_return", Null)
    /\ UNCHANGED <<api, thread, current, new_context, thread_name, pushed_id,
                   returned, timeVars, pollVars>>
    /\ UNCHANGED <<execVars, heap, held, waking, ghostVars>>

\* the method returns the observer: SpinRuntime and SleepRuntime after
\* spin_on / sleep_on returned, SpawnRuntime after std::thread::spawn
RtReturn ==
    /\ api \in Runtimes /\ caller = "call"
    /\ IF api = "SpawnRuntime" THEN thread = "spawned" ELSE pc = "done"
    /\ caller' = "returned"
    /\ lastOp' = Op("rt_return", Null)
    /\ UNCHANGED <<api, thread, current, new_context, thread_name, pushed_id,
                   returned, timeVars, pollVars>>
    /\ UNCHANGED <<execVars, heap, held, waking, ghostVars>>

\* the runtimes with a task that completes on its first poll: of spin_on
\* and sleep_on, the steps such a task takes
RuntimeNext ==
    \/ Tick
    \/ RtTaskSpawn
    \/ RtSpinLoop
    \/ RtSpinCheck
    \/ RtSleepCheck
    \/ RtDur
    \/ RtSleep
    \/ RtSleepDone
    \/ RtReturn
    \/ SpinOnEnter
    \/ SpinPollBegin
    \/ NoopWakerOp
    \/ SpinPollEnd
    \/ SleepOnEnter
    \/ SleepPollBegin
    \/ SleepPollEnd
    \/ SleepDropWaker
    \/ SleepDropLocal
    \/ SleepDropFuture

RuntimeSpec == InitRuntime /\ [][RuntimeNext]_vars

TypeOK ==
    /\ executor \in {"spin_on", "sleep_on"}
    /\ pc \in {"start", "poll", "in_poll", "spin_hint", "wait",
               "drop_waker", "drop_local", "drop_future", "done"}
    /\ polls \in 0..MaxPolls
    /\ \A a \in Addr : heap[a].strong \in 0..MaxStrong

\* ---- properties ----
Sleeping == executor = "sleep_on"
Spinning == executor = "spin_on"

RECURSIVE HeldUpTo(_, _)
HeldUpTo(n, a) == IF n < 0 THEN 0 ELSE held[n][a] + HeldUpTo(n - 1, a)

\* number of live references to cell a: sleep_on's `local`, sleep_on's
\* `waker`, and every waker handle owned by the future or a thread
HandleCount(a) ==
    (IF local = a THEN 1 ELSE 0) + (IF waker = a THEN 1 ELSE 0)
    + HeldUpTo(NumWakers, a)

\* C1: no lost wakeup. Whenever sleep_on is at its semaphore wait and some
\* wake or wake_by_ref was called since the poll that returned Pending
\* started, the wait returns and the future is polled again.
C1_NoLostWakeup ==
    (Sleeping /\ pc = "wait" /\ wokenSincePoll) ~> (pc = "in_poll")

\* a poll that follows a wake made by another thread while the previous
\* poll was still running, i.e. before the wait began
C1_Witness ==
    Sleeping /\ pc = "in_poll" /\ polls >= 2 /\ prev.racing /\ ~prev.reentrant

\* C2: reentrant wake. A poll that wakes its own waker and returns Pending
\* is followed by another poll, and when that poll returns Ready sleep_on
\* returns.
C2_ReentrantWake ==
    /\ (Sleeping /\ pc = "wait" /\ reentrant) ~> (pc = "in_poll")
    /\ (Sleeping /\ pc = "in_poll" /\ prev.reentrant /\ PollReady(future))
          ~> (pc = "done" /\ result = future.val)

\* sleep_on has returned and the poll before the last one woke its own waker
C2_Witness ==
    Sleeping /\ pc = "done" /\ prev.reentrant /\ ~prev.racing /\ polls >= 2

\* C3: spin_on returns the future's value after exactly pendings + 1 polls,
\* whether or not the future called wake.
C3_SpinOnReturns ==
    (Spinning /\ pc = "done") =>
        (result = future.val /\ polls = future.pendings + 1)

\* spin_on has returned after a Pending poll during which wake was called
C3_Witness ==
    Spinning /\ pc = "done" /\ future.pendings >= 1 /\ prev.reentrant
    /\ result \in Values

\* C4: sleep_on returns the value of the future, driven to completion.
C4_SleepOnReturns ==
    (Sleeping /\ pc \in {"drop_waker", "drop_local", "drop_future", "done"}) =>
        (result = future.val /\ PollReady(future))

\* sleep_on has returned 3 from a future that was Pending twice
C4_Witness ==
    Sleeping /\ pc = "done" /\ future.pendings = 2 /\ result = 3 /\ polls = 3

\* C5 as stated: coalescing between two polls. When sleep_on reaches its
\* wait after a poll during which nobody woke, no permit is left, however
\* many wakes came before that poll: it blocks again.
C5_CoalescingBetweenPolls ==
    (Sleeping /\ pc = "wait" /\ ~wokenSincePoll) => ~heap[local].semaphore

\* C5: coalescing between two returns of the wait. The permit is there
\* exactly when at least one wake was made since the wait last returned
\* (or since sleep_on started): any number of such wakes resume one wait,
\* and the wait that returns leaves no permit behind.
C5_Coalescing ==
    (Sleeping /\ local # Null) =>
        (heap[local].semaphore <=> wakesSinceWait > 0)

\* the wait was resumed by two or more wakes, the resumed poll returned
\* Pending, nobody woke since, and sleep_on is blocked
C5_Witness ==
    Sleeping /\ pc = "wait" /\ resumedBy >= 2 /\ wakesSinceWait = 0
    /\ ~heap[local].semaphore

\* C6: liveness. If every wait of sleep_on is eventually accompanied by a
\* wake made since the poll started, and the future is ready after finitely
\* many polls, sleep_on returns.
C6_Liveness ==
    (Sleeping /\ future.kind = "Counter"
       /\ [](pc = "wait" => <>wokenSincePoll))
    => <>(pc = "done")

\* sleep_on has returned after being woken twice
C6_Witness ==
    Sleeping /\ pc = "done" /\ polls = 3 /\ resumedBy > 0

\* C7: sleep_on goes to the wait exactly when a poll returns Pending, the
\* wait returns only after a wake, and sleep_on(PendForever) polls once and
\* never returns.
C7_ResumeOnlyOnWake ==
    /\ [][(Sleeping /\ pc = "in_poll" /\ pc' # "in_poll")
            => ((pc' = "wait") <=> ~PollReady(future))]_vars
    /\ [][(Sleeping /\ pc = "wait" /\ pc' # "wait")
            => (wakesSinceWait > 0 /\ pc' = "poll")]_vars
    /\ []((Sleeping /\ future = PendForever)
            => (polls <= 1 /\ pc \in {"start", "poll", "in_poll", "wait"}))

\* sleep_on(PendForever) is blocked after its only poll
C7_Witness ==
    Sleeping /\ future = PendForever /\ pc = "wait" /\ polls = 1

\* C8: the share count of a WakeSignal is the number of live references to
\* it, it is live exactly while there is one, and it has been freed once
\* per allocation that no longer has one.
C8_ShareCount ==
    \A a \in Addr :
        /\ heap[a].strong = HandleCount(a)
        /\ heap[a].live <=> HandleCount(a) > 0
        /\ heap[a].frees = heap[a].allocs - (IF heap[a].live THEN 1 ELSE 0)
        /\ heap[a].frees <= 1

\* a clone outlived the sleep_on call and its wake released the last share
C8_Witness ==
    /\ Sleeping /\ pc = "done" /\ lastOp = Op("wake_release", shared)
    /\ heap[shared].frees = 1 /\ ~heap[shared].live

\* C9: wake and wake_by_ref set the signal; wake_by_ref leaves the share
\* count and the handles alone, wake releases exactly the caller's share.
C9_WakeEffects ==
    [][/\ lastOp'.op = "wake_by_ref" =>
            /\ heap'[lastOp'.a].semaphore
            /\ heap'[lastOp'.a].strong = heap[lastOp'.a].strong
            /\ held' = held
       /\ lastOp'.op = "wake" =>
            /\ heap'[lastOp'.a].semaphore
            /\ heap'[lastOp'.a].strong = heap[lastOp'.a].strong
            /\ held' = held
       /\ lastOp'.op = "wake_release" =>
            /\ heap'[lastOp'.a].strong = heap[lastOp'.a].strong - 1
            /\ heap'[lastOp'.a].semaphore = heap[lastOp'.a].semaphore
            /\ \E h \in Holders : waking[h] = lastOp'.a /\ waking'[h] = Null
                                  /\ held' = Take(held, h, lastOp'.a)
      ]_vars

\* a wake has completed on a signal that others still share
C9_Witness ==
    /\ lastOp.op = "wake_release" /\ heap[lastOp.a].live
    /\ heap[lastOp.a].semaphore

\* C10: clone adds one share, leaves the flag alone and hands out a handle
\* to the same WakeSignal: every handle is to the cell sleep_on waits on,
\* and a wake through any of them sets that cell's flag.
C10_CloneShares ==
    /\ [][lastOp'.op = "clone" =>
            /\ heap'[lastOp'.a].strong = heap[lastOp'.a].strong + 1
            /\ heap'[lastOp'.a].semaphore = heap[lastOp'.a].semaphore
            /\ \E h \in Holders : held' = Give(held, h, lastOp'.a)]_vars
    /\ [](\A h \in Holders, a \in Addr : held[h][a] > 0 => a = shared)
    /\ [][lastOp'.op \in {"wake", "wake_by_ref"} =>
            heap'[shared].semaphore]_vars

\* a thread woke through a clone while sleep_on was blocked in its wait
C10_Witness ==
    /\ Sleeping /\ pc = "wait" /\ lastOp = Op("wake", shared)
    /\ \E w \in Wakers : waking[w] = shared
    /\ heap[local].semaphore

\* C11: polls of the future are strictly sequential: at most one poll is
\* in progress at any time, and one is in progress exactly while the
\* executor thread is inside future.poll, whatever other threads do.
C11_SequentialPolls ==
    (api \in {"spin_on", "sleep_on"}) =>
        (polling <= 1 /\ (polling = 1 <=> pc = "in_poll"))

\* a poll of sleep_on is in progress while another thread has just woken
C11_Witness ==
    /\ Sleeping /\ pc = "in_poll" /\ polling = 1 /\ polls >= 2
    /\ racing /\ lastOp.op = "wake_by_ref"

\* C12: spin_on never waits: it is never at a wait, the spin hint is
\* followed by the next poll, and on a future that is always Pending it
\* keeps polling (up to the model's cap) and never returns.
C12_SpinNeverWaits ==
    /\ [](Spinning => pc \in {"start", "poll", "in_poll", "spin_hint", "done"})
    /\ [][(Spinning /\ pc = "spin_hint" /\ pc' # pc) => pc' = "poll"]_vars
    /\ []((Spinning /\ future = PendForever) => pc # "done")
    /\ (Spinning /\ future = PendForever) => <>(polls = MaxPolls)

\* spin_on has polled PendForever as often as the model lets it
C12_Witness ==
    Spinning /\ future = PendForever /\ polls = MaxPolls /\ pc = "spin_hint"

\* C13: spawn_on does not wait for the future: once the thread exists the
\* caller's return is enabled whatever the future's state; the future is
\* polled only on the new thread; its value is pushed at most once, it has
\* been pushed once when the thread is through, and a future that
\* completes without waiting for anybody does get its value pushed.
C13_SpawnDetached ==
    /\ [](caller = "spawned" => ENABLED SpawnOnReturn)
    /\ [](polls > 0 => thread = "spawned")
    /\ [](/\ Len(data) <= 1
          /\ data # <<>> => data = <<future.val>>
          /\ pc \in {"done", "exited"} => data = <<future.val>>)
    /\ (thread = "spawned" /\ future.kind = "Counter" /\ future.pendings = 0)
         ~> (data = <<future.val>>)

\* spawn_on has returned while the future is pending on the new thread
C13_Witness ==
    /\ api = "spawn_on" /\ caller = "returned" /\ thread = "spawned"
    /\ pc = "wait" /\ data = <<>>

\* C14: on the new thread the child context is current from before the
\* first poll until sleep_on has returned, it is popped with the id that
\* was pushed and only then, and it is the child of the caller's current
\* context, labelled with the task name.
C14_ContextProtocol ==
    /\ [](pc \in {"start", "poll", "in_poll", "wait", "drop_waker",
                   "drop_local", "drop_future", "done"}
            => (pushed_id = new_context.id /\ current["spawned"] = pushed_id))
    /\ [](polls = 0 \/ pc = "exited" \/ current["spawned"] = new_context.id)
    /\ [][current'["spawned"] # current["spawned"] =>
            \/ (pc = "entry" /\ pc' = "start" /\ current'["spawned"] = new_context.id)
            \/ (pc = "done" /\ pc' = "exited" /\ lastOp' = Op("pop", new_context.id)
                  /\ current'["spawned"] = new_context.parent)]_vars
    /\ [](pc = "exited" => current["spawned"] = new_context.parent)
    /\ [](new_context # NoContext =>
            (new_context.parent = current["caller"] /\ new_context.label = thread_name))

\* the thread has polled twice under the child context and popped it
C14_Witness ==
    /\ api = "spawn_on" /\ pc = "exited" /\ polls >= 2
    /\ current["spawned"] = new_context.parent /\ new_context.label = "io"

\* C15: when the thread cannot be created spawn_on panics: nothing runs the
\* future, on any thread, and the caller stays panicked.
C15_SpawnFailureFatal ==
    /\ [][lastOp'.op = "spawn_failed" =>
            (caller' = "panicked" /\ thread' = "none" /\ pc' = "unspawned")]_vars
    /\ [](caller = "panicked" => (polls = 0 /\ thread = "none" /\ pc = "unspawned"))
    /\ [][caller = "panicked" => caller' = "panicked"]_vars

\* thread creation failed and spawn_on panicked
C15_Witness ==
    api = "spawn_on" /\ caller = "panicked" /\ lastOp.op = "spawn_failed"

\* C16: poll_once and poll_once_pin poll the future exactly once per call:
\* the polls made are the calls returned plus the one in progress, a poll in
\* progress can always return (no loop, no blocking), and the value returned
\* is the result of that poll, with the future left as the poll left it;
\* poll_once_pin is called once and returns once.
C16_PollOnceSinglePoll ==
    /\ [](/\ polls = Len(returned) + polling
          /\ polling <= 1
          /\ (polling = 1 <=> pc = "in_poll"))
    /\ [](pc = "in_poll" => ENABLED PollOnceReturn)
    /\ [][Len(returned') > Len(returned) =>
            /\ returned' = Append(returned, IF PollReady(future)
                                            THEN Ready(future.val) ELSE Pending)
            /\ polls' = polls
            /\ future' = future]_vars
    /\ [](api = "poll_once_pin" => Len(returned) <= 1)

\* a future that woke the no-op waker in its second poll, which was Ready
C16_Witness ==
    /\ api = "poll_once" /\ pc = "idle"
    /\ wokenSincePoll
    /\ returned = <<Pending, Ready(42)>>
    /\ polls = 2

\* C17: poll_once on a future that is always Pending returns Pending every
\* time, and an operation on the no-op waker changes nothing: not the
\* future, the poll counts, the results returned so far or any memory.
C17_NoopWakerNoEffect ==
    /\ [][lastOp'.op = "noop" =>
            UNCHANGED <<execVars, heap, held, waking, pollVars, returned>>]_vars
    /\ [](future.kind \in {"PendForever", "WakeForever"} =>
            \A i \in 1..Len(returned) : returned[i] = Pending)

\* the second call returned Pending after the future used the waker in it
C17_Witness ==
    /\ api = "poll_once" /\ future = WakeForever
    /\ wokenSincePoll /\ pc = "idle"
    /\ returned = <<Pending, Pending>>

\* C18: poll_once is reusable: the future's state persists between calls, so
\* the results of n calls are the first n results of polling it directly,
\* the future is where n direct polls leave it, and an unfinished future can
\* be polled again.
C18_PollOnceReusable ==
    api = "poll_once" =>
        /\ \A i \in 1..Len(returned) : returned[i] = DirectResult(FirstFuture, i)
        /\ future = NthPoll(FirstFuture, polls)
        /\ (pc = "idle" /\ ~PollReady(future) /\ polls < MaxPolls) =>
               ENABLED PollOnceCall

\* the counter that is ready on its third poll
C18_Witness ==
    /\ api = "poll_once" /\ FirstFuture = Counter(2, 3)
    /\ returned = <<Pending, Pending, Ready(3)>>

\* C19 as stated: under SleepRuntime and SpawnRuntime the task's future is
\* not polled before its poll_after deadline.
C19_SleepsUntilDeadline ==
    (api \in {"SleepRuntime", "SpawnRuntime"} /\ polls > 0) => now >= poll_after

\* C20: SpinRuntime calls spin_on only once the clock has reached the task's
\* poll_after, for spawn, spawn_async and spawn_objsafe alike, so the future
\* is not polled before the deadline.
C20_SpinDeadline ==
    api = "SpinRuntime" =>
        /\ pc \in {"start", "poll", "in_poll", "done"} => now >= poll_after
        /\ polls > 0 => now >= poll_after

\* the first poll runs at a deadline the runtime had to spin for
C20_Witness ==
    /\ api = "SpinRuntime" /\ method = "spawn_objsafe"
    /\ pc = "in_poll" /\ polls = 1
    /\ poll_after > 0 /\ now = poll_after

\* C21: SpinRuntime and SleepRuntime block the caller: the method has
\* returned only when the executor has returned the future's value, and
\* every poll ran on the calling thread. SpawnRuntime polls on the spawned
\* thread only, and once that thread exists its method can return whatever
\* the task is doing.
C21_RuntimeBlocking ==
    /\ [](api \in {"SpinRuntime", "SleepRuntime"} =>
            /\ caller = "returned" =>
                  (pc = "done" /\ polls > 0 /\ result = future.val)
            /\ polls > 0 => thread = "caller")
    /\ [](api = "SpawnRuntime" =>
            /\ polls > 0 => thread = "spawned"
            /\ (thread = "spawned" /\ caller = "call") => ENABLED RtReturn)

\* SpawnRuntime::spawn has returned while its thread still sleeps before
\* the first poll
C21_Witness ==
    /\ api = "SpawnRuntime" /\ method = "spawn_async"
    /\ caller = "returned" /\ pc = "rt_sleeping" /\ polls = 0

C23_CompleteTerminal ==
    /\ [][PollReady(future) => (polls' = polls /\ future' = future)]_vars
    /\ [](PollReady(future) =>
            /\ pc \in {"in_poll", "drop_waker", "drop_local", "drop_future", "done"}
            /\ pc # "done" => ENABLED ExecutorStep)
    /\ [][pc = "done" => (pc' = "done" /\ result' = result)]_vars

\* sleep_on returned after two polls and a waker clone that outlived it
\* was woken afterwards
C23_Witness ==
    /\ Sleeping /\ pc = "done" /\ polls >= 2
    /\ lastOp.op = "wake_by_ref"
    /\ \E a \in Addr : heap[a].live /\ heap[a].semaphore

\* C24: every sleep_on call has a WakeSignal of its own. The cell a call
\* allocates was not live and no handle pointed to it, and it starts
\* unsignalled; a wake through a handle to another call's cell changes
\* neither this call's cell nor its position nor its poll count; a cell
\* becomes signalled only by a wake on that very cell, and the wait returns
\* only on this call's cell being signalled.
C24_FreshSignalPerCall ==
    /\ [][(pc = "start" /\ pc' = "poll") =>
            /\ ~heap[shared'].live
            /\ \A h \in Holders : held[h][shared'] = 0
            /\ heap'[shared'].live /\ ~heap'[shared'].semaphore]_vars
    /\ [][(lastOp'.op \in {"wake", "wake_by_ref"} /\ shared # Null
              /\ lastOp'.a # shared) =>
            (heap'[shared] = heap[shared] /\ pc' = pc /\ polls' = polls)]_vars
    /\ [][\A a \in Addr : (~heap[a].semaphore /\ heap'[a].semaphore) =>
            (lastOp'.op \in {"wake", "wake_by_ref"} /\ lastOp'.a = a)]_vars
    /\ [][(pc = "wait" /\ pc' = "poll") => heap[shared].semaphore]_vars

\* the second call is blocked in its wait while a clone that outlived the
\* first call has just been woken
C24_Witness ==
    /\ Len(returned) = 1 /\ pc = "wait" /\ polls = 1
    /\ lastOp.op \in {"wake", "wake_by_ref"} /\ lastOp.a # shared
    /\ heap[lastOp.a].semaphore /\ ~heap[shared].semaphore

\* C25: in every execution of sleep_on, whenever and from whichever thread
\* the wakes arrive, the polls started so far are at most one more than the
\* wake and wake_by_ref calls made so far.
C25_PollCountBound ==
    wakes.counting => polls <= 1 + wakes.n

\* three polls after exactly two wakes, one of them from another thread
\* during a poll
C25_Witness ==
    /\ wakes.counting /\ polls = 3 /\ wakes.n = 2
    /\ pc = "in_poll" /\ prev.racing

\* C26: on a future that wakes its waker before every Pending result and
\* is Ready after k Pending results, spin_on and sleep_on do the same: each
\* poll gives what the same poll of the future gives directly, both return,
\* and both have then made k + 1 polls and return the future's value.
C26_ExecutorsEquivalent ==
    /\ [](pc = "in_poll" =>
            (PollReady(future) <=> DirectResult(FirstFuture, polls).ready))
    /\ [](pc = "done" =>
            (polls = future.pendings + 1 /\ result = future.val))
    /\ <>(pc = "done")

\* sleep_on returned 3 from the counter future after two self-woken waits
C26_Witness ==
    /\ api = "sleep_on" /\ pc = "done" /\ polls = 3 /\ result = 3
    /\ prev.reentrant /\ resumedBy >= 1

\* C27: spawn_on leaves the calling thread's current context alone: no step
\* changes it, it is never the child context, and after spawn_on returned
\* it is the context that was captured as the child's parent before.
C27_CallerContextKept ==
    /\ [][current'["caller"] = current["caller"]]_vars
    /\ [](new_context # NoContext =>
            /\ current["caller"] # new_context.id
            /\ current["caller"] = new_context.parent)
    /\ [](current["spawned"] = TaskId =>
            (thread = "spawned" /\ new_context.id = TaskId))

\* spawn_on has returned while the child context is current on the spawned
\* thread only
C27_Witness ==
    /\ api = "spawn_on" /\ caller = "returned"
    /\ current["spawned"] = new_context.id /\ pc = "in_poll"
    /\ current["caller"] = 2

\* C28 as stated: SpawnRuntime runs a task as spawn_on does, on a new
\* thread under sleep_on with a child of the caller's context current on
\* that thread while the task is polled.
C28_SpawnRuntimeAsSpawnOn ==
    (api = "SpawnRuntime" /\ polls > 0) =>
        /\ thread = "spawned" /\ executor = "sleep_on"
        /\ new_context # NoContext
        /\ new_context.parent = current["caller"]
        /\ current["spawned"] = new_context.id

\* C29 as stated: in SleepRuntime and SpawnRuntime every method computes
\* the sleep duration max(0, poll_after - now) from the deadline and the
\* time it read.
C29_SameDuration ==
    (api \in {"SleepRuntime", "SpawnRuntime"} /\ pc = "rt_sleep"
        /\ lastOp.op = "rt") =>
        dur = (IF api = "SleepRuntime"
               THEN IF poll_after > tnow THEN poll_after - tnow ELSE 0
               ELSE IF poll_after > now THEN poll_after - now ELSE 0)

====
